---- MODULE Spec2Model ----
(***************************************************************************)
(* Model of src/index.js: the artifact-to-Swarm publication pipeline.      *)
(* One process invocation ("run") executes main(): clear the workspace,    *)
(* fetch and extract the newest artifact, check the workspace, then        *)
(* upload(): select a postage batch, create a tag, upload the directory,   *)
(* wait for the chunks to be synced (waitForFileSynced) and write the      *)
(* feed (updateFeedAndPrint / writeFeed).                                  *)
(* An action is one await-delimited segment of the code.  The Bee node,    *)
(* the feed and the file system are the environment: their answers are     *)
(* drawn with \E from small sets.                                          *)
(***************************************************************************)
EXTENDS Integers, Sequences, FiniteSets, TLC

(* ---------------------------- bounds ----------------------------------- *)
\* largest value of a tag's split, seen and synced counters
MaxChunks == 2
\* longest list getAllPostageBatch answers with
MaxAllocs == 2
\* number of process invocations in one behaviour
MaxRuns == 2
\* retrieveTag polls followed in one run (the loop itself has no ceiling)
MaxPolls == 31

(* ------------------------ program constants ---------------------------- *)
pollingTime == 500
pollingTrials == 15

(* --------------------------- value sets -------------------------------- *)
\* contents an extracted artifact can have (both hold an index.html)
Sites == {"siteA", "siteB"}
\* the content of the artifact with a given id, when it is a complete site
SiteOf(id) == IF id = 1 THEN "siteA" ELSE "siteB"
\* what OUT_DIR can be after the download step
OutDirStates == {"absent", "notdir", "noindex"} \cup Sites
\* V3_WALLET keystores and the TOPIC names of the environment
Keystores == {"ksA", "ksB"}
TopicNames == {"t1", "t2"}
\* batchTTL values: expired (negative or zero) and alive
TTLs == {-1, 0, 100}

NoBatch == [batchID |-> 0, batchTTL |-> 0, usable |-> FALSE]
NoTag == [uid |-> 0, split |-> 0, seen |-> 0, synced |-> 0]
NoBar == [active |-> FALSE, total |-> 0, value |-> 0]

VARIABLES
  pc,            \* position of the run in main()/upload()/waitForFileSynced()
  error,         \* what ended the run, "" while it runs or after success
  runs,          \* process invocations started so far
  env,           \* process.env of the run: V3_WALLET and TOPIC
  outDir,        \* state of OUT_DIR on disk
  artifactId,    \* main: artifactId
  allBatches,    \* upload: the list bee.getAllPostageBatch() resolved to
  batch,         \* upload: batch
  uploadTag,     \* upload: tag (the answer of createTag)
  tag,           \* waitForFileSynced: tag (the parameter, reassigned by each poll)
  reference,     \* upload: reference
  i,             \* waitForFileSynced: i
  synced,        \* waitForFileSynced: synced
  syncProgress,  \* waitForFileSynced: syncProgress
  progressBar,   \* waitForFileSynced: progressBar (cli-progress SingleBar)
  wallet,        \* updateFeedAndPrint: wallet (its address), "" before
  topic,         \* updateFeedAndPrint: topic
  manifest,      \* updateFeedAndPrint: manifest
  feed,          \* the Swarm feeds: sequence of entries written, oldest first
  stored,        \* content references the Bee node holds
  calls,         \* history: Bee operations invoked in this run, in order
  stampUsed,     \* history: the batch ids handed to Bee in this run, in order
  polls,         \* history: retrieveTag polls answered in this run
  sleeps,        \* history: sleepMillis calls completed in this run
  stalls,        \* history: consecutive polls, up to the last one, showing no increase
  increases,     \* history: TRUE once a poll showed an increase
  highest,       \* history: the highest seen + synced a poll of this call showed
  monotone,      \* history: so far split was the same in every snapshot and
                 \* seen and synced never decreased
  tickReported,  \* history: progressBar.update was called on the last poll
  outcome,       \* history: how waitForFileSynced ended in this run, "" before
  written,       \* history: feed entries written by this run
  obtained       \* history: manifests obtained, over all runs

vars == <<pc, error, runs, env, outDir, artifactId, allBatches, batch, uploadTag, tag,
          reference, i, synced, syncProgress, progressBar, wallet, topic,
          manifest, feed, stored, calls, stampUsed, polls, sleeps, stalls, increases,
          highest, monotone, tickReported, outcome, written, obtained>>

\* the locals of main/upload/updateFeedAndPrint
mainVars == <<outDir, artifactId>>
uploadVars == <<allBatches, batch, uploadTag, reference>>
wfsVars == <<tag, i, synced, syncProgress, progressBar>>
wfsHist == <<polls, sleeps, stalls, increases, highest, monotone, tickReported>>
feedVars == <<wallet, topic, manifest>>
world == <<feed, stored, written, obtained, outcome>>

(* ------------------------- pure functions ------------------------------ *)
\* mutant of Eligible: the time-to-live is not looked at
EligibleIgnoringTTL(b) == b.usable

\* line 67: the filter predicate  b => b.batchTTL > 0 && b.usable
Eligible(b) == b.batchTTL > 0 /\ b.usable

\* line 67: list.filter(...)[0]; NoBatch stands for undefined
FirstUsable(list) ==
  LET kept == SelectSeq(list, Eligible)
  IN  IF Len(kept) = 0 THEN NoBatch ELSE kept[1]

\* lines 36-37: sort by created_at, newest first (the sort is stable), take [0].id;
\* a list is the sequence of created_at values, an artifact's id is its position
NewestId(list) ==
  CHOOSE k \in 1..Len(list) :
    /\ \A j \in 1..Len(list) : list[j] <= list[k]
    /\ \A j \in 1..(k - 1) : list[j] < list[k]

\* line 122: tag.seen + tag.synced
Progress(t) == t.seen + t.synced

\* mutant of TrialAfterPoll: a poll showing the same progress resets too
TrialAfterPollResetOnEqual(trial, newSyncProgress, oldSyncProgress) ==
  IF newSyncProgress >= oldSyncProgress THEN 0 ELSE trial

\* lines 124-126: the trial counter after a poll
TrialAfterPoll(trial, newSyncProgress, oldSyncProgress) ==
  IF newSyncProgress > oldSyncProgress THEN 0 ELSE trial

\* mutant of IsSynced: a strict comparison
IsSyncedStrict(progress, split) == progress > split

\* line 130: the exit test of the loop
IsSynced(progress, split) == progress >= split

\* mutant of LoopGoesOn: one trial more
LoopGoesOnOneMore(trial) == trial <= pollingTrials

\* line 120: the loop condition
LoopGoesOn(trial) == trial < pollingTrials

\* line 137: the time spent in sleepMillis(pollingTime) so far, in milliseconds
Waited == sleeps * pollingTime

\* line 97: the address of the wallet a keystore unlocks to
AddressOf(keystore) == <<"address", keystore>>

\* line 98: bee.makeFeedTopic(TOPIC), a hash of the name
MakeFeedTopic(name) == <<"topic", name>>

\* line 74: the reference of an uploaded directory is the hash of its content
ReferenceOf(content) == <<"ref", content>>

\* mutant of ManifestArgs: the chunk reference is passed where the topic belongs
ManifestArgsWithReference(stamp, feedTopic, owner, chunkReference) ==
  [stamp |-> stamp, type |-> "sequence", topic |-> chunkReference, owner |-> owner]

\* line 107: the arguments createFeedManifest is called with
ManifestArgs(stamp, feedTopic, owner, chunkReference) ==
  [stamp |-> stamp, type |-> "sequence", topic |-> feedTopic, owner |-> owner]

\* the address Bee answers createFeedManifest with: derived from the feed's
\* type, topic and owner (spec section 3, PointerManifest)
FeedManifestAddress(args) == <<"manifest", args.type, args.topic, args.owner>>

\* the index a sequence feed writer gives the next entry of (owner, topic):
\* one past the entries the feed holds (spec section 3, PointerEntry)
NextIndex(entries, owner, feedTopic) ==
  Cardinality({k \in 1..Len(entries) :
                 entries[k].owner = owner /\ entries[k].topic = feedTopic})

(* ----------------------------- inputs ---------------------------------- *)
\* answers of getAllPostageBatch: batchID is the position in the list
AllocLists ==
  UNION {{[k \in 1..n |-> [batchID |-> k, batchTTL |-> f[k][1], usable |-> f[k][2]]] :
            f \in [1..n -> TTLs \X BOOLEAN]} : n \in 0..MaxAllocs}

\* answers of the artifact listing: created_at of each artifact
ArtifactLists == {<<>>, <<1>>, <<1, 2>>, <<2, 1>>, <<2, 2>>}

\* answers of retrieveTag
Snapshots(uid) ==
  [uid : {uid}, split : 0..MaxChunks, seen : 0..MaxChunks, synced : 0..MaxChunks]

Envs == [V3_WALLET : Keystores, TOPIC : TopicNames]

\* the configuration of the first run (a later run may be given another)
FirstEnv == [V3_WALLET |-> "ksA", TOPIC |-> "t1"]

(* ------------------------------ Init ----------------------------------- *)
Locals ==
  /\ artifactId = 0
  /\ allBatches = <<>>
  /\ batch = NoBatch
  /\ uploadTag = NoTag
  /\ tag = NoTag
  /\ reference = <<>>
  /\ i = 0
  /\ synced = FALSE
  /\ syncProgress = 0
  /\ progressBar = NoBar
  /\ wallet = <<>>
  /\ topic = <<>>
  /\ manifest = <<>>
  /\ calls = <<>>
  /\ stampUsed = <<>>
  /\ polls = 0
  /\ sleeps = 0
  /\ stalls = 0
  /\ increases = FALSE
  /\ highest = 0
  /\ monotone = TRUE
  /\ tickReported = FALSE
  /\ outcome = ""
  /\ written = 0

Init ==
  /\ pc = "rm"
  /\ error = ""
  /\ runs = 1
  /\ env = FirstEnv
  /\ outDir = "absent"
  /\ feed = <<>>
  /\ stored = {}
  /\ obtained = {}
  /\ Locals

(* --------------------------- run endings ------------------------------- *)
\* an error nothing catches: main()'s promise rejects (line 180 has no catch)
Reject(kind) == pc' = "rejected" /\ error' = kind

\* process.exit(1)
Exit1(kind) == pc' = "exit1" /\ error' = kind

Terminated == pc \in {"done", "exit1", "rejected"}

\* the exit status of the process: 0 after "done", 1 after process.exit(1) and
\* after an unhandled rejection (Node's default), -1 while the run goes on
ExitStatus ==
  IF pc = "done" THEN 0 ELSE IF pc \in {"exit1", "rejected"} THEN 1 ELSE -1

(* ------------------------------ main ----------------------------------- *)
\* line 158
RmOutDir ==
  /\ pc = "rm"
  /\ outDir' = "absent"
  /\ pc' = "getArtifactId"
  /\ UNCHANGED <<error, runs, env, artifactId, uploadVars, wfsVars, wfsHist,
                 feedVars, world, calls, stampUsed>>

\* lines 20-38, 160-161
GetArtifactId ==
  /\ pc = "getArtifactId"
  /\ \E ok \in BOOLEAN, list \in ArtifactLists :
       IF ~ok THEN Reject("artifact listing failed") /\ UNCHANGED artifactId
       ELSE IF Len(list) = 0 THEN Reject("No artifacts found") /\ UNCHANGED artifactId
       ELSE /\ artifactId' = NewestId(list)
            /\ pc' = "download"
            /\ UNCHANGED error
  /\ UNCHANGED <<runs, env, outDir, uploadVars, wfsVars, wfsHist, feedVars,
                 world, calls, stampUsed>>

\* lines 40-64, 162
DownloadAndExtractArtifact ==
  /\ pc = "download"
  /\ \E ok \in BOOLEAN, extracted \in {"absent", "notdir", "noindex", SiteOf(artifactId)} :
       IF ~ok THEN Reject("download failed") /\ UNCHANGED outDir
       ELSE /\ outDir' = extracted
            /\ pc' = "statDir"
            /\ UNCHANGED error
  /\ UNCHANGED <<runs, env, artifactId, uploadVars, wfsVars, wfsHist, feedVars,
                 world, calls, stampUsed>>

\* lines 164-167: fs.stat throws when OUT_DIR is absent
StatOutDir ==
  /\ pc = "statDir"
  /\ IF outDir = "absent" THEN Reject("ENOENT")
     ELSE IF outDir = "notdir" THEN Exit1("Directory does not exist")
     ELSE pc' = "statIndex" /\ UNCHANGED error
  /\ UNCHANGED <<runs, env, mainVars, uploadVars, wfsVars, wfsHist, feedVars,
                 world, calls, stampUsed>>

\* mutant of StatIndexHtml: the missing index.html is logged and the run goes on
StatIndexHtmlNoExit ==
  /\ pc = "statIndex"
  /\ pc' = "getAllPostageBatch"
  /\ UNCHANGED <<error, runs, env, mainVars, uploadVars, wfsVars, wfsHist, feedVars,
                 world, calls, stampUsed>>

\* lines 169-174
StatIndexHtml ==
  /\ pc = "statIndex"
  /\ IF outDir = "noindex" THEN Exit1("No index.html")
     ELSE pc' = "getAllPostageBatch" /\ UNCHANGED error
  /\ UNCHANGED <<runs, env, mainVars, uploadVars, wfsVars, wfsHist, feedVars,
                 world, calls, stampUsed>>

(* ----------------------------- upload ---------------------------------- *)
\* a Bee operation is invoked: it joins the run's history (the polls of one
\* monitor, which follow one another, are entered once)
Called(op) ==
  calls' = IF op = "retrieveTag" /\ Len(calls) > 0 /\ calls[Len(calls)] = op
           THEN calls
           ELSE Append(calls, op)

\* a batch id is handed to a Bee operation: it joins the run's history
Stamped(stamp) == stampUsed' = Append(stampUsed, stamp)

\* line 67: await bee.getAllPostageBatch()
GetAllPostageBatch ==
  /\ pc = "getAllPostageBatch"
  /\ Called("getAllPostageBatch")
  /\ UNCHANGED stampUsed
  /\ \E ok \in BOOLEAN, list \in AllocLists :
       IF ~ok THEN Reject("getAllPostageBatch failed") /\ UNCHANGED allBatches
       ELSE /\ allBatches' = list
            /\ pc' = "selectBatch"
            /\ UNCHANGED error
  /\ UNCHANGED <<runs, env, mainVars, batch, uploadTag, reference, wfsVars,
                 wfsHist, feedVars, world>>

\* mutant of SelectBatch: no throw when nothing is usable
SelectBatchNoThrow ==
  /\ pc = "selectBatch"
  /\ batch' = FirstUsable(allBatches)
  /\ pc' = "createTag"
  /\ UNCHANGED <<error, runs, env, mainVars, allBatches, uploadTag, reference, wfsVars,
                 wfsHist, feedVars, world, calls, stampUsed>>

\* lines 67-70: .filter(...)[0] and the throw
SelectBatch ==
  /\ pc = "selectBatch"
  /\ batch' = FirstUsable(allBatches)
  /\ IF batch' = NoBatch THEN Reject("No usable postage batch found")
     ELSE pc' = "createTag" /\ UNCHANGED error
  /\ UNCHANGED <<runs, env, mainVars, allBatches, uploadTag, reference, wfsVars,
                 wfsHist, feedVars, world, calls, stampUsed>>

\* line 72: await bee.createTag(); a new tag has counted nothing yet.
\* The list of line 67 is a temporary: it is dropped here.
CreateTag ==
  /\ pc = "createTag"
  /\ Called("createTag")
  /\ UNCHANGED stampUsed
  /\ allBatches' = <<>>
  /\ \E ok \in BOOLEAN :
       IF ~ok THEN Reject("createTag failed") /\ UNCHANGED uploadTag
       ELSE /\ uploadTag' = [uid |-> runs, split |-> 0, seen |-> 0, synced |-> 0]
            /\ pc' = "uploadFilesFromDirectory"
            /\ UNCHANGED error
  /\ UNCHANGED <<runs, env, mainVars, batch, reference, wfsVars, wfsHist,
                 feedVars, world>>

\* lines 73-87: await bee.uploadFilesFromDirectory(batch.batchID, OUT_DIR, ...)
UploadFilesFromDirectory ==
  /\ pc = "uploadFilesFromDirectory"
  /\ Called("uploadFilesFromDirectory")
  /\ Stamped(batch.batchID)
  /\ \E ok \in BOOLEAN :
       IF ~ok THEN Reject("uploadFilesFromDirectory failed")
                   /\ UNCHANGED <<reference, stored>>
       ELSE /\ reference' = ReferenceOf(outDir)
            /\ stored' = stored \cup {reference'}
            /\ pc' = "waitForFileSynced"
            /\ UNCHANGED error
  /\ UNCHANGED <<runs, env, mainVars, allBatches, batch, uploadTag, wfsVars,
                 wfsHist, feedVars, feed, written, obtained, outcome>>

(* ------------------------ waitForFileSynced ---------------------------- *)
\* lines 89, 112-120: the call, the locals, progressBar.start(tag.split, 0), i = 0
WaitForFileSynced ==
  /\ pc = "waitForFileSynced"
  /\ tag' = uploadTag
  /\ synced' = FALSE
  /\ syncProgress' = 0
  /\ progressBar' = [active |-> TRUE, total |-> tag'.split, value |-> 0]
  /\ i' = 0
  /\ pc' = IF LoopGoesOn(i') THEN "retrieveTag" ELSE "stop"
  /\ UNCHANGED <<error, runs, env, mainVars, uploadVars, wfsHist, feedVars,
                 world, calls, stampUsed>>

\* lines 135-136: progressBar.setTotal(tag.split); progressBar.update(syncProgress)
BarAfterUpdate(bar, total, value) == [bar EXCEPT !.total = total, !.value = value]

\* lines 121-137: one poll, up to the break or to the call of sleepMillis
RetrieveTagOver(answers) ==
  /\ pc = "retrieveTag"
  /\ polls < MaxPolls
  /\ Called("retrieveTag")
  /\ UNCHANGED stampUsed
  /\ \E ok \in BOOLEAN, snapshot \in answers :
       IF ~ok
       THEN /\ Reject("retrieveTag failed")
            /\ UNCHANGED <<wfsVars, wfsHist>>
       ELSE LET newSyncProgress == Progress(snapshot)
            IN  /\ tag' = snapshot
                /\ i' = TrialAfterPoll(i, newSyncProgress, syncProgress)
                /\ syncProgress' = newSyncProgress
                /\ polls' = polls + 1
                /\ stalls' = IF newSyncProgress > syncProgress THEN 0 ELSE stalls + 1
                /\ increases' = (increases \/ newSyncProgress > syncProgress)
                /\ highest' = IF newSyncProgress > highest THEN newSyncProgress
                              ELSE highest
                /\ monotone' = (monotone /\ (polls = 0 \/ (/\ snapshot.split = tag.split
                                                          /\ snapshot.seen >= tag.seen
                                                          /\ snapshot.synced >= tag.synced)))
                /\ IF IsSynced(newSyncProgress, snapshot.split)
                   THEN /\ synced' = TRUE
                        /\ tickReported' = FALSE
                        /\ pc' = "stop"
                        /\ UNCHANGED progressBar
                   ELSE /\ progressBar' =
                             BarAfterUpdate(progressBar, snapshot.split, newSyncProgress)
                        /\ tickReported' = TRUE
                        /\ pc' = "sleep"
                        /\ UNCHANGED synced
                /\ UNCHANGED <<error, sleeps>>
  /\ UNCHANGED <<runs, env, mainVars, uploadVars, feedVars, world>>

\* mutant of RetrieveTag: a failed poll is caught and tried again
RetrieveTagRetrying ==
  /\ pc = "retrieveTag"
  /\ polls < MaxPolls
  /\ Called("retrieveTag")
  /\ UNCHANGED stampUsed
  /\ \E ok \in BOOLEAN, snapshot \in Snapshots(tag.uid) :
       IF ~ok
       THEN /\ error' = "retrieveTag failed"
            /\ UNCHANGED <<pc, wfsVars, wfsHist>>
       ELSE LET newSyncProgress == Progress(snapshot)
            IN  /\ tag' = snapshot
                /\ i' = TrialAfterPoll(i, newSyncProgress, syncProgress)
                /\ syncProgress' = newSyncProgress
                /\ polls' = polls + 1
                /\ stalls' = IF newSyncProgress > syncProgress THEN 0 ELSE stalls + 1
                /\ increases' = (increases \/ newSyncProgress > syncProgress)
                /\ highest' = IF newSyncProgress > highest THEN newSyncProgress
                              ELSE highest
                /\ monotone' = (monotone /\ (polls = 0 \/ (/\ snapshot.split = tag.split
                                                          /\ snapshot.seen >= tag.seen
                                                          /\ snapshot.synced >= tag.synced)))
                /\ IF IsSynced(newSyncProgress, snapshot.split)
                   THEN /\ synced' = TRUE
                        /\ tickReported' = FALSE
                        /\ pc' = "stop"
                        /\ UNCHANGED progressBar
                   ELSE /\ progressBar' =
                             BarAfterUpdate(progressBar, snapshot.split, newSyncProgress)
                        /\ tickReported' = TRUE
                        /\ pc' = "sleep"
                        /\ UNCHANGED synced
                /\ UNCHANGED <<error, sleeps>>
  /\ UNCHANGED <<runs, env, mainVars, uploadVars, feedVars, world>>

RetrieveTag == RetrieveTagOver(Snapshots(tag.uid))

\* lines 137, 120: sleepMillis resolves, i++, the loop condition
SleepMillis ==
  /\ pc = "sleep"
  /\ sleeps' = sleeps + 1
  /\ i' = i + 1
  /\ pc' = IF LoopGoesOn(i') THEN "retrieveTag" ELSE "stop"
  /\ UNCHANGED <<error, runs, env, mainVars, uploadVars, tag, synced, syncProgress,
                 progressBar, polls, stalls, increases, highest, monotone, tickReported,
                 feedVars,
                 world, calls, stampUsed>>

\* mutant of StopAndReport: the timeout is logged without process.exit(1)
StopAndReportNoExit ==
  /\ pc = "stop"
  /\ pc' = "fromV3"
  /\ tag' = NoTag
  /\ i' = 0
  /\ synced' = FALSE
  /\ syncProgress' = 0
  /\ progressBar' = NoBar
  /\ polls' = 0
  /\ sleeps' = 0
  /\ stalls' = 0
  /\ increases' = FALSE
  /\ highest' = 0
  /\ monotone' = TRUE
  /\ tickReported' = FALSE
  /\ outcome' = IF synced THEN "Synced" ELSE "TimedOut"
  /\ UNCHANGED <<error, runs, env, mainVars, uploadVars, feedVars, feed, stored,
                 written, obtained, calls, stampUsed>>

\* lines 139-146: progressBar.stop(), then the outcome.  When the function
\* returns its locals are gone, and the history of the call with them.
StopAndReport ==
  /\ pc = "stop"
  /\ IF synced
     THEN /\ pc' = "fromV3"
          /\ tag' = NoTag
          /\ i' = 0
          /\ synced' = FALSE
          /\ syncProgress' = 0
          /\ progressBar' = NoBar
          /\ polls' = 0
          /\ sleeps' = 0
          /\ stalls' = 0
          /\ increases' = FALSE
          /\ highest' = 0
          /\ monotone' = TRUE
          /\ tickReported' = FALSE
          /\ outcome' = "Synced"
          /\ UNCHANGED error
     ELSE /\ Exit1("Data syncing timeout")
          /\ progressBar' = [progressBar EXCEPT !.active = FALSE]
          /\ outcome' = "TimedOut"
          /\ UNCHANGED <<tag, i, synced, syncProgress, wfsHist>>
  /\ UNCHANGED <<runs, env, mainVars, uploadVars, feedVars, feed, stored, written,
                 obtained, calls, stampUsed>>

(* ------------------- updateFeedAndPrint / writeFeed -------------------- *)
\* lines 91-98, 106: Wallet.fromV3, makeFeedTopic, makeFeedWriter
FromV3 ==
  /\ pc = "fromV3"
  /\ \E ok \in BOOLEAN :
       IF ~ok THEN Reject("fromV3 failed") /\ UNCHANGED <<wallet, topic>>
       ELSE /\ wallet' = AddressOf(env.V3_WALLET)
            /\ topic' = MakeFeedTopic(env.TOPIC)
            /\ pc' = "createFeedManifest"
            /\ UNCHANGED error
  /\ UNCHANGED <<runs, env, mainVars, uploadVars, wfsVars, wfsHist, manifest,
                 world, calls, stampUsed>>

\* mutant of CreateFeedManifest: a failure is caught and the run goes on
CreateFeedManifestFailureCaught ==
  /\ pc = "createFeedManifest"
  /\ Called("createFeedManifest")
  /\ Stamped(batch.batchID)
  /\ error' = "createFeedManifest failed"
  /\ pc' = "writerUpload"
  /\ UNCHANGED <<runs, env, mainVars, uploadVars, wfsVars, wfsHist, feedVars,
                 world>>

\* line 107: await bee.createFeedManifest(stamp, 'sequence', topic, address)
CreateFeedManifest ==
  /\ pc = "createFeedManifest"
  /\ Called("createFeedManifest")
  /\ Stamped(batch.batchID)
  /\ \E ok \in BOOLEAN :
       IF ~ok THEN Reject("createFeedManifest failed")
                   /\ UNCHANGED <<manifest, obtained>>
       ELSE /\ manifest' =
                 FeedManifestAddress(ManifestArgs(batch.batchID, topic, wallet, reference))
            /\ obtained' = obtained \cup
                 {[V3_WALLET |-> env.V3_WALLET, TOPIC |-> env.TOPIC,
                   manifest |-> manifest']}
            /\ pc' = "writerUpload"
            /\ UNCHANGED error
  /\ UNCHANGED <<runs, env, mainVars, uploadVars, wfsVars, wfsHist, wallet, topic,
                 feed, stored, written, outcome>>

\* mutant of NewEntry: the manifest is written where the chunk reference belongs
NewEntryOfManifest(stamp, owner, feedTopic, chunkReference) ==
  [owner |-> owner, topic |-> feedTopic,
   index |-> NextIndex(feed, owner, feedTopic), reference |-> manifest]

\* the entry writer.upload(stamp, chunkReference) appends to the feed
NewEntry(stamp, owner, feedTopic, chunkReference) ==
  [owner |-> owner, topic |-> feedTopic,
   index |-> NextIndex(feed, owner, feedTopic), reference |-> chunkReference]

\* mutant of WriterUpload: a failed write is answered by removing the upload
WriterUploadRollingBack ==
  /\ pc = "writerUpload"
  /\ Called("writerUpload")
  /\ Stamped(batch.batchID)
  /\ \E ok \in BOOLEAN :
       IF ~ok THEN /\ Reject("writer.upload failed")
                   /\ stored' = stored \ {reference}
                   /\ UNCHANGED <<feed, written>>
       ELSE /\ feed' = Append(feed, NewEntry(batch.batchID, wallet, topic, reference))
            /\ written' = written + 1
            /\ pc' = "done"
            /\ UNCHANGED <<error, stored>>
  /\ UNCHANGED <<runs, env, mainVars, uploadVars, wfsVars, wfsHist, feedVars,
                 obtained, outcome>>

\* mutant of WriterUpload: the entry is written a second time
WriterUploadRepeated ==
  /\ pc = "writerUpload"
  /\ Called("writerUpload")
  /\ Stamped(batch.batchID)
  /\ feed' = Append(Append(feed, NewEntry(batch.batchID, wallet, topic, reference)),
                    NewEntry(batch.batchID, wallet, topic, reference))
  /\ written' = written + 2
  /\ pc' = "done"
  /\ UNCHANGED <<error, runs, env, mainVars, uploadVars, wfsVars, wfsHist, feedVars,
                 stored, obtained, outcome>>

\* lines 108-109, 101-102, 177, 180: await writer.upload(stamp, chunkReference),
\* then the logs and "done"
WriterUpload ==
  /\ pc = "writerUpload"
  /\ Called("writerUpload")
  /\ Stamped(batch.batchID)
  /\ \E ok \in BOOLEAN :
       IF ~ok THEN Reject("writer.upload failed") /\ UNCHANGED <<feed, written>>
       ELSE /\ feed' = Append(feed, NewEntry(batch.batchID, wallet, topic, reference))
            /\ written' = written + 1
            /\ pc' = "done"
            /\ UNCHANGED error
  /\ UNCHANGED <<runs, env, mainVars, uploadVars, wfsVars, wfsHist, feedVars,
                 stored, obtained, outcome>>

(* --------------------------- next run ---------------------------------- *)
\* the process is started again: fresh locals, the disk and Swarm as left
NewRun ==
  /\ Terminated
  /\ runs < MaxRuns
  /\ runs' = runs + 1
  /\ pc' = "rm"
  /\ error' = ""
  /\ env' \in Envs
  /\ artifactId' = 0
  /\ allBatches' = <<>>
  /\ batch' = NoBatch
  /\ uploadTag' = NoTag
  /\ tag' = NoTag
  /\ reference' = <<>>
  /\ i' = 0
  /\ synced' = FALSE
  /\ syncProgress' = 0
  /\ progressBar' = NoBar
  /\ wallet' = <<>>
  /\ topic' = <<>>
  /\ manifest' = <<>>
  /\ calls' = <<>>
  /\ stampUsed' = <<>>
  /\ polls' = 0
  /\ sleeps' = 0
  /\ stalls' = 0
  /\ increases' = FALSE
  /\ highest' = 0
  /\ monotone' = TRUE
  /\ tickReported' = FALSE
  /\ outcome' = ""
  /\ written' = 0
  /\ UNCHANGED <<outDir, feed, stored, obtained>>

Next ==
  \/ RmOutDir
  \/ GetArtifactId
  \/ DownloadAndExtractArtifact
  \/ StatOutDir
  \/ StatIndexHtml
  \/ GetAllPostageBatch
  \/ SelectBatch
  \/ CreateTag
  \/ UploadFilesFromDirectory
  \/ WaitForFileSynced
  \/ RetrieveTag
  \/ SleepMillis
  \/ StopAndReport
  \/ FromV3
  \/ CreateFeedManifest
  \/ WriterUpload

\* one run, every answer of the environment
Spec == Init /\ [][Next]_vars

\* the answers of retrieveTag in the specification of successive runs: a tag
\* of one chunk, not yet seen or synced
QuickSnapshots(uid) ==
  {[uid |-> uid, split |-> 1, seen |-> 0, synced |-> s] : s \in 0..1}

RetrieveTagQuick == RetrieveTagOver(QuickSnapshots(tag.uid))

NextRuns ==
  \/ RmOutDir
  \/ GetArtifactId
  \/ DownloadAndExtractArtifact
  \/ StatOutDir
  \/ StatIndexHtml
  \/ GetAllPostageBatch
  \/ SelectBatch
  \/ CreateTag
  \/ UploadFilesFromDirectory
  \/ WaitForFileSynced
  \/ RetrieveTagQuick
  \/ SleepMillis
  \/ StopAndReport
  \/ FromV3
  \/ CreateFeedManifest
  \/ WriterUpload
  \/ NewRun

\* successive runs against the same Swarm feed
SpecRuns == Init /\ [][NextRuns]_vars

(* ======================== the claims, C1 .. ============================ *)
\* the monitor ended in its timeout outcome (lines 143-146)
TimedOut == pc = "exit1" /\ error = "Data syncing timeout"

\* the run is inside the polling loop of waitForFileSynced or just left it
InMonitor == pc \in {"retrieveTag", "sleep", "stop"}

\* C1: once a poll has shown an increase of seen+synced, the monitor reaches
\* TimedOut only after 15 consecutive later polls have each shown no increase
\* (the claim as stated, here for tags whose split is fixed and whose
\* counters never decrease; the code times out after 14 such polls).
C1_IncreaseResetsFullBudget ==
  (TimedOut /\ increases /\ monotone) => stalls >= pollingTrials

\* C2: in a run where every retrieved tag reports seen+synced = 0 < split,
\* waitForFileSynced makes exactly 15 polls, no 16th, and then times out.
C2_TimeoutAfterFifteenStalledPolls ==
  /\ (TimedOut /\ ~increases) => polls = pollingTrials
  /\ ((InMonitor \/ TimedOut) /\ ~increases /\ ~synced) =>
        /\ polls <= pollingTrials
        /\ stalls = polls
        /\ (pc = "retrieveTag" => polls < pollingTrials)
        /\ (pc = "stop" => polls = pollingTrials)

C2_Witness == TimedOut /\ ~increases /\ polls = pollingTrials /\ tag.split > 0

\* C3: the monitor is Synced at the first poll whose snapshot has
\* seen+synced >= split, whatever the stall counter: that poll is followed by
\* no sleep and no poll, and the outcome is never the timeout.
C3_SyncedAtFirstFullSnapshot ==
  /\ (pc = "sleep" => tag.seen + tag.synced < tag.split)
  /\ (pc = "retrieveTag" /\ polls > 0 => tag.seen + tag.synced < tag.split)
  /\ ((pc = "stop" \/ TimedOut) /\ polls > 0 /\ tag.seen + tag.synced >= tag.split
        => synced /\ pc = "stop")
  /\ (synced => /\ pc = "stop"
                /\ tag.seen + tag.synced >= tag.split
                /\ sleeps = polls - 1)
  /\ (outcome = "Synced" => pc \notin {"retrieveTag", "sleep", "stop", "exit1"})
  /\ (TimedOut => ~synced /\ tag.seen + tag.synced < tag.split)

\* the poll that would have exhausted the stall budget finds the tag synced
C3_Witness ==
  pc = "stop" /\ synced /\ stalls = pollingTrials /\ polls = pollingTrials

\* the calls that write the pointer
FeedCalls == {"createFeedManifest", "writerUpload"}

CalledOps == {calls[k] : k \in 1..Len(calls)}

\* C4: the selection of line 67 takes the first element of the list with
\* batchTTL > 0 and usable, throws the no-usable-batch error exactly when no
\* element qualifies, and leaves the list as it was.
C4_FirstEligibleSelected ==
  [][pc = "selectBatch" =>
       /\ allBatches' = allBatches
       /\ IF \E k \in 1..Len(allBatches) :
               allBatches[k].batchTTL > 0 /\ allBatches[k].usable
          THEN /\ pc' = "createTag"
               /\ error' = ""
               /\ \E k \in 1..Len(allBatches) :
                    /\ allBatches[k].batchTTL > 0 /\ allBatches[k].usable
                    /\ \A j \in 1..(k - 1) :
                         ~(allBatches[j].batchTTL > 0 /\ allBatches[j].usable)
                    /\ batch' = allBatches[k]
          ELSE /\ pc' = "rejected"
               /\ error' = "No usable postage batch found"]_vars

\* the example of the claim: the first allocation has expired, the second is taken
C4_Witness ==
  /\ pc = "createTag"
  /\ allBatches = <<[batchID |-> 1, batchTTL |-> 0, usable |-> TRUE],
                    [batchID |-> 2, batchTTL |-> 100, usable |-> TRUE]>>
  /\ batch = allBatches[2]

\* C5: a run whose monitor ended TimedOut exits with status 1 and never calls
\* createFeedManifest or the feed writer's upload; the pointer is written only
\* in runs whose monitor reached Synced.
C5_TimeoutExitsWithoutPointer ==
  /\ (outcome = "TimedOut" =>
        /\ pc = "exit1"
        /\ ExitStatus = 1
        /\ CalledOps \cap FeedCalls = {}
        /\ written = 0)
  /\ ((CalledOps \cap FeedCalls # {} \/ written > 0) => outcome = "Synced")

C5_Witness == outcome = "TimedOut" /\ pc = "exit1" /\ polls = pollingTrials

\* C6: when the extracted workspace holds no index.html, the run ends with exit
\* status 1 before upload(): no Bee operation is called and no feed entry is
\* written.
C6_NoIndexAbortsBeforeUpload ==
  (pc \notin {"rm", "getArtifactId", "download"} /\ error # "download failed"
     /\ outDir \notin Sites) =>
        /\ pc \in {"statDir", "statIndex", "exit1", "rejected"}
        /\ (Terminated => ExitStatus = 1)
        /\ (outDir = "noindex" /\ Terminated =>
              pc = "exit1" /\ error = "No index.html")
        /\ calls = <<>>
        /\ stored = {}
        /\ manifest = <<>>
        /\ written = 0
        /\ feed = <<>>

C6_Witness ==
  pc = "exit1" /\ outDir = "noindex" /\ error = "No index.html" /\ calls = <<>>

\* the list of allocations has been answered and the selection made, and
\* nothing was called since
SelectionMade ==
  /\ calls = <<"getAllPostageBatch">>
  /\ pc \in {"createTag", "rejected"}
  /\ error # "getAllPostageBatch failed"

\* C7: when no allocation is eligible the run ends with the no-usable-batch
\* error and createTag, uploadFilesFromDirectory, retrieveTag,
\* createFeedManifest and the feed write are never called.
C7_NoEligibleAbortsBeforeUpload ==
  /\ (SelectionMade
        /\ (\A k \in 1..Len(allBatches) :
              ~(allBatches[k].batchTTL > 0 /\ allBatches[k].usable))) =>
        /\ pc = "rejected"
        /\ error = "No usable postage batch found"
  /\ (CalledOps \ {"getAllPostageBatch"} # {} =>
        batch.batchTTL > 0 /\ batch.usable)
  /\ (error = "No usable postage batch found" =>
        /\ pc = "rejected"
        /\ calls = <<"getAllPostageBatch">>
        /\ \A k \in 1..Len(allBatches) :
             ~(allBatches[k].batchTTL > 0 /\ allBatches[k].usable)
        /\ stored = {}
        /\ written = 0)

C7_Witness ==
  /\ pc = "rejected"
  /\ error = "No usable postage batch found"
  /\ Len(allBatches) = MaxAllocs
  /\ allBatches[1].usable
  /\ calls = <<"getAllPostageBatch">>

\* C8: a run that reports success has written exactly one feed entry, no run
\* writes more than one, and within a feed (owner, topic) every later entry has
\* a greater sequence index than every earlier one.
C8_OneEntryPerSuccessfulRun ==
  /\ written <= 1
  /\ (pc = "done" => written = 1)
  /\ written <= Len(feed)
  /\ Len(feed) <= runs
  /\ \A j, k \in 1..Len(feed) :
       (j < k /\ feed[j].owner = feed[k].owner /\ feed[j].topic = feed[k].topic)
          => feed[j].index < feed[k].index

\* two successful runs have written to the same feed
C8_Witness ==
  /\ runs = 2
  /\ pc = "done"
  /\ written = 1
  /\ Len(feed) = 2
  /\ feed[1].owner = feed[2].owner
  /\ feed[1].topic = feed[2].topic
  /\ feed[1].index < feed[2].index

\* C9: on every poll, the one that finds the tag synced and the one that
\* exhausts the stall budget included, the progress reporter is called with
\* the progress and the total of the snapshot of that poll (the claim as
\* stated: the code leaves the loop at line 132 before lines 135-136).
C9_ReporterNotifiedOnEveryPoll ==
  (polls > 0 /\ pc \in {"sleep", "stop"}) =>
     /\ tickReported
     /\ progressBar.value = tag.seen + tag.synced
     /\ progressBar.total = tag.split

\* C10: the manifest address a run obtains is decided by the signing identity
\* and the topic name alone: runs with the same V3_WALLET and TOPIC obtain the
\* same address, whatever batch, content or earlier feed updates.
C10_ManifestDecidedByOwnerAndTopic ==
  /\ \A a, b \in obtained :
       (a.V3_WALLET = b.V3_WALLET /\ a.TOPIC = b.TOPIC) => a.manifest = b.manifest
  /\ (manifest # <<>> =>
        [V3_WALLET |-> env.V3_WALLET, TOPIC |-> env.TOPIC, manifest |-> manifest]
           \in obtained)

\* a second run with the same identity and topic, other content, the second
\* batch of its list and one earlier feed update obtained the address again
C10_Witness ==
  /\ runs = 2
  /\ pc = "writerUpload"
  /\ Len(feed) = 1
  /\ feed[1].owner = wallet
  /\ feed[1].topic = topic
  /\ feed[1].reference # reference
  /\ batch.batchID = 2
  /\ Cardinality(obtained) = 1

\* the Bee operations of a run, in the order of upload() and writeFeed()
GatewayOrder ==
  <<"getAllPostageBatch", "createTag", "uploadFilesFromDirectory", "retrieveTag",
    "createFeedManifest", "writerUpload">>

\* the position a run is at once the operation has answered
AfterCall ==
  [getAllPostageBatch |-> {"selectBatch", "createTag"},
   createTag |-> {"uploadFilesFromDirectory"},
   uploadFilesFromDirectory |-> {"waitForFileSynced", "retrieveTag"},
   retrieveTag |-> {"retrieveTag", "sleep", "stop", "fromV3", "createFeedManifest"},
   createFeedManifest |-> {"writerUpload"},
   writerUpload |-> {"done"}]

\* C11: the Bee operations of a run are called in the fixed order
\* getAllPostageBatch, createTag, uploadFilesFromDirectory, retrieveTag (one
\* monitor of one or more polls), createFeedManifest, writer.upload, none
\* twice; an operation is called only after the earlier ones succeeded, and
\* after a failure nothing more is called and "done" is not reported.
C11_FixedOrderFailFast ==
  /\ Len(calls) <= Len(GatewayOrder)
  /\ \A k \in 1..Len(calls) : calls[k] = GatewayOrder[k]
  /\ (error # "" <=> pc \in {"exit1", "rejected"})
  /\ (pc = "done" => calls = GatewayOrder /\ error = "")
  /\ (Len(calls) > 0 /\ error = "" => pc \in AfterCall[calls[Len(calls)]])
  /\ ("createFeedManifest" \in CalledOps => outcome = "Synced" /\ reference \in stored)

C11_Witness == pc = "done" /\ calls = GatewayOrder /\ error = ""

\* C12: when createFeedManifest or writer.upload fails after the upload and
\* the confirmed replication, the run ends in failure without "done", the
\* write is not tried again, nothing is rolled back: the uploaded reference
\* stays stored and the feed has no entry of this run.
C12_PointerFailureLeavesUpload ==
  error \in {"createFeedManifest failed", "writer.upload failed"} =>
     /\ pc = "rejected"
     /\ outcome = "Synced"
     /\ reference \in stored
     /\ written = 0
     /\ feed = <<>>
     /\ calls = IF error = "writer.upload failed" THEN GatewayOrder
                ELSE SubSeq(GatewayOrder, 1, 5)

C12_Witness ==
  /\ error = "writer.upload failed"
  /\ pc = "rejected"
  /\ manifest # <<>>
  /\ reference \in stored

\* C13: a retrieveTag error is not retried: the run ends at the failing poll,
\* the monitor reaches no outcome, and neither the manifest nor a feed entry
\* is written.
C13_TagErrorIsFatal ==
  error = "retrieveTag failed" =>
     /\ pc = "rejected"
     /\ outcome = ""
     /\ ~synced
     /\ calls = SubSeq(GatewayOrder, 1, 4)
     /\ manifest = <<>>
     /\ written = 0
     /\ feed = <<>>

\* the third poll fails after two answered ones
C13_Witness ==
  error = "retrieveTag failed" /\ pc = "rejected" /\ polls = 2 /\ sleeps = 2

\* C14: a tag whose split is 0 is synced at the first check: one retrieveTag
\* poll, no sleep, outcome Synced, and the run goes on to the pointer update.
C14_ZeroSplitSyncedAtOnce ==
  [][ /\ (pc = "retrieveTag" /\ polls = 0 /\ polls' = 1 /\ tag'.split = 0)
          => (synced' /\ pc' = "stop" /\ sleeps' = 0)
      /\ (pc = "stop" /\ synced /\ monotone /\ tag.split = 0)
          => (/\ polls = 1
              /\ sleeps = 0
              /\ pc' = "fromV3"
              /\ outcome' = "Synced"
              /\ error' = "") ]_vars

C14_Witness ==
  /\ pc = "stop"
  /\ synced
  /\ tag.split = 0
  /\ syncProgress = 0
  /\ polls = 1
  /\ sleeps = 0

\* C15: the recorded last progress changes only on a poll whose seen + synced
\* exceeds it, so it never decreases during a monitor run, and the stall
\* budget is reset only by a poll that exceeds the highest progress observed
\* so far, whatever the sequence of snapshots.
C15_LastProgressNeverDecreases ==
  [][ (pc = "retrieveTag" /\ polls' = polls + 1)
        => /\ syncProgress' >= syncProgress
           /\ (stalls' = 0 => Progress(tag') > highest) ]_vars

\* the most polls a monitor can have made when its progress stands at a value
PollCeiling(progress) == pollingTrials + (pollingTrials - 1) * progress

\* C16: on a tag whose split is fixed and whose seen and synced never
\* decrease, waitForFileSynced makes a bounded number of polls (each increase
\* short of split buys at most one more budget) and ends in exactly one of
\* Synced and TimedOut.
C16_MonitorTerminates ==
  /\ ((InMonitor \/ TimedOut) /\ monotone /\ polls > 0) =>
        /\ polls <= PollCeiling(IF tag.split > 0 THEN tag.split - 1 ELSE 0)
        /\ (~synced => syncProgress < tag.split /\ polls <= PollCeiling(syncProgress))
        /\ (synced => syncProgress >= tag.split)
  /\ (pc = "stop" => (synced \/ i >= pollingTrials))
  /\ (pc = "stop" /\ ~synced => i = pollingTrials)
  /\ (TimedOut <=> outcome = "TimedOut")
  /\ (TimedOut => ~synced)
  /\ (pc \in {"fromV3", "createFeedManifest", "writerUpload", "done"}
        => outcome = "Synced")
  /\ (outcome = "Synced" => error # "Data syncing timeout")

\* the longest monitor of a tag of split 2: 15 polls up to the increase to 1,
\* then 14 stalled ones
C16_Witness ==
  /\ TimedOut
  /\ monotone
  /\ tag.split = 2
  /\ syncProgress = 1
  /\ polls = PollCeiling(1)

\* C17: within a run the feed entry holds the reference this run's
\* uploadFilesFromDirectory returned, and the upload, createFeedManifest and
\* writer.upload are handed the batch id of the one selected batch; the
\* batches are listed and selected once.
C17_SameBatchSameReference ==
  /\ Len(stampUsed) <= 3
  /\ \A k \in 1..Len(stampUsed) : batch # NoBatch /\ stampUsed[k] = batch.batchID
  /\ Cardinality({k \in 1..Len(calls) : calls[k] = "getAllPostageBatch"}) <= 1
  /\ (pc = "done" =>
        /\ Len(stampUsed) = 3
        /\ Len(feed) > 0
        /\ feed[Len(feed)].reference = reference
        /\ reference = ReferenceOf(outDir)
        /\ reference \in stored)

\* a second run publishes another reference, with the second batch of its list
C17_Witness ==
  /\ pc = "done"
  /\ runs = 2
  /\ Len(feed) = 2
  /\ feed[1].reference # feed[2].reference
  /\ stampUsed = <<2, 2, 2>>

\* C18: the timeout is decided before the sleep: the poll that exhausts the
\* budget is followed by no sleep, so when the loop is left the sleeps are one
\* fewer than the polls.
C18_SleepOnlyBetweenPolls ==
  ((pc = "stop" \/ TimedOut) /\ polls > 0) => sleeps = polls - 1

====
